---- MODULE Spec2Model ----
(***************************************************************************)
(* Model of package multihash (src/multihash.go): the registry of hash     *)
(* function codes built by the package-level map literals and init(), and  *)
(* the functions Encode, EncodeName, Decode, Cast, ValidCode and AppCode.  *)
(*                                                                         *)
(* A []byte is a sequence of numbers in 0..255 (Go indexes from 0, the     *)
(* sequences here from 1).  A nil slice and an empty slice are both <<>>.  *)
(* A *DecodedMultihash is a sequence of length 0 (nil) or 1 (the struct).  *)
(* An error is a record [kind, dm]: kind names the error value ("nil" for  *)
(* no error) and dm is the struct an ErrInconsistentLen carries.           *)
(***************************************************************************)
EXTENDS Integers, Sequences, FiniteSets, TLC

(***************************************************************************)
(* Constants of the package (multihash.go:31-43), in decimal.              *)
(***************************************************************************)
SHA1 == 17
SHA2_256 == 18
SHA2_512 == 19
SHA3 == 20
BLAKE2B_MIN == 45569
BLAKE2B_MAX == 45632
BLAKE2S_MIN == 45633
BLAKE2S_MAX == 45664
DBL_SHA2_256 == 86

\* the literals of Decode, Encode and AppCode
MinBufLen == 3
MaxBufLen == 129
MaxEncodeLen == 127
AppCodeEnd == 16
ByteRange == 256

(***************************************************************************)
(* Bounds of the model: the inputs the operations are applied to.          *)
(***************************************************************************)
MaxDigestLen == 130
MaxSeed == 1
MaxLowCode == 33

VARIABLES pc, c, Names, Codes, DefaultLengths, call

vars == <<pc, c, Names, Codes, DefaultLengths, call>>

\* the call in hand: the function called, its arguments, what it returned
op == call.op
argBuf == call.argBuf
argCode == call.argCode
argName == call.argName
retBytes == call.retBytes
retDm == call.retDm
retErr == call.retErr

(***************************************************************************)
(* Errors.                                                                 *)
(***************************************************************************)
NoDm == <<>>
Err(kind) == [kind |-> kind, dm |-> NoDm]
NoErr == Err("nil")
ErrUnknownCode == Err("ErrUnknownCode")
ErrTooShort == Err("ErrTooShort")
ErrTooLong == Err("ErrTooLong")
ErrLenNotSupported == Err("ErrLenNotSupported")
ErrInconsistentLen(dm) == [kind |-> "ErrInconsistentLen", dm |-> <<dm>>]

\* no call in hand: every argument and result at its zero value
NoCall ==
    [op |-> "none", argBuf |-> <<>>, argCode |-> 0, argName |-> "",
     retBytes |-> <<>>, retDm |-> NoDm, retErr |-> NoErr]

(***************************************************************************)
(* Go conversions and map reads.                                           *)
(***************************************************************************)
\* uint8(x): the low 8 bits of x
Uint8(x) == x % ByteRange

\* m[k] of a Go map: the zero value of the element type when k is missing
MapGet(m, k, zero) == IF k \in DOMAIN m THEN m[k] ELSE zero

\* m[k] = v of a Go map
MapPut(m, k, v) == [x \in DOMAIN m \cup {k} |-> IF x = k THEN v ELSE m[x]]

DigitChars == <<"0", "1", "2", "3", "4", "5", "6", "7", "8", "9">>

\* the decimal text fmt's %d verb prints for a non-negative integer
RECURSIVE FormatDecimal(_)
FormatDecimal(n) ==
    IF n < 10 THEN DigitChars[n + 1]
    ELSE FormatDecimal(n \div 10) \o DigitChars[(n % 10) + 1]

\* fmt.Sprintf("<family>-%d", bits)
Sprintf(family, bits) == family \o "-" \o FormatDecimal(bits)

(***************************************************************************)
(* The registry: the map literals, then init().                            *)
(***************************************************************************)
NamesLiteral ==
    [n \in {"sha1", "sha2-256", "sha2-512", "sha3", "dbl-sha2-256"} |->
        CASE n = "sha1" -> SHA1
          [] n = "sha2-256" -> SHA2_256
          [] n = "sha2-512" -> SHA2_512
          [] n = "sha3" -> SHA3
          [] n = "dbl-sha2-256" -> DBL_SHA2_256]

CodesLiteral ==
    [k \in {SHA1, SHA2_256, SHA2_512, SHA3, DBL_SHA2_256} |->
        CASE k = SHA1 -> "sha1"
          [] k = SHA2_256 -> "sha2-256"
          [] k = SHA2_512 -> "sha2-512"
          [] k = SHA3 -> "sha3"
          [] k = DBL_SHA2_256 -> "dbl-sha2-256"]

DefaultLengthsLiteral ==
    [k \in {SHA1, SHA2_256, SHA2_512, SHA3, DBL_SHA2_256} |->
        CASE k = SHA1 -> 20
          [] k = SHA2_256 -> 32
          [] k = SHA2_512 -> 64
          [] k = SHA3 -> 64
          [] k = DBL_SHA2_256 -> 32]

\* a variant of FamilyIndex that counts the family from zero
FamilyIndex_ZeroBased(code, min) == code - min

\* n := c - MIN + 1
FamilyIndex(code, min) == code - min + 1

\* name := fmt.Sprintf("<family>-%d", n*8)
FamilyName(family, n) == Sprintf(family, n * 8)

\* the body of either loop of init(): the three map writes
AddFamilyEntry(family, min) ==
    LET n == FamilyIndex(c, min)
        name == FamilyName(family, n)
    IN  /\ Names' = MapPut(Names, name, c)
        /\ Codes' = MapPut(Codes, c, name)
        /\ DefaultLengths' = MapPut(DefaultLengths, c, n)

Init ==
    /\ pc = "blake2b"
    /\ c = BLAKE2B_MIN
    /\ Names = NamesLiteral
    /\ Codes = CodesLiteral
    /\ DefaultLengths = DefaultLengthsLiteral
    /\ call = NoCall

\* for c := uint64(BLAKE2B_MIN); c <= BLAKE2B_MAX; c++ { ... }
InitBlake2b ==
    /\ pc = "blake2b"
    /\ c <= BLAKE2B_MAX
    /\ AddFamilyEntry("blake2b", BLAKE2B_MIN)
    /\ c' = c + 1
    /\ UNCHANGED <<pc, call>>

\* the first loop ends; the second starts at BLAKE2S_MIN
InitBlake2bDone ==
    /\ pc = "blake2b"
    /\ ~(c <= BLAKE2B_MAX)
    /\ pc' = "blake2s"
    /\ c' = BLAKE2S_MIN
    /\ UNCHANGED <<Names, Codes, DefaultLengths, call>>

\* for c := uint64(BLAKE2S_MIN); c <= BLAKE2S_MAX; c++ { ... }
InitBlake2s ==
    /\ pc = "blake2s"
    /\ c <= BLAKE2S_MAX
    /\ AddFamilyEntry("blake2s", BLAKE2S_MIN)
    /\ c' = c + 1
    /\ UNCHANGED <<pc, call>>

\* init() returns: the package is ready for callers
InitDone ==
    /\ pc = "blake2s"
    /\ ~(c <= BLAKE2S_MAX)
    /\ pc' = "ready"
    /\ UNCHANGED <<c, Names, Codes, DefaultLengths, call>>

(***************************************************************************)
(* The functions of the package, read against the registry as it stands.   *)
(***************************************************************************)
\* a variant of AppCode that leaves code 0 out of the application range
AppCode_Positive(code) == code > 0 /\ code < AppCodeEnd

\* func AppCode(code int) bool
AppCode(code) == code >= 0 /\ code < AppCodeEnd

\* a variant of ValidCode without the application range
ValidCode_RegistryOnly(code) == code \in DOMAIN Codes

\* func ValidCode(code int) bool
ValidCode(code) ==
    IF AppCode(code) THEN TRUE
    ELSE IF code \in DOMAIN Codes THEN TRUE
    ELSE FALSE

\* the checks and the struct of Decode, with the literals as parameters:
\* min and max bound len(buf), codeAt is the place of the code byte
DecodeWith(buf, min, max, codeAt) ==
    IF Len(buf) < min THEN [dm |-> NoDm, err |-> ErrTooShort]
    ELSE IF Len(buf) > max THEN [dm |-> NoDm, err |-> ErrTooLong]
    ELSE LET dm == [Code   |-> Uint8(buf[codeAt]),
                    Name   |-> MapGet(Codes, Uint8(buf[codeAt]), ""),
                    Length |-> Uint8(buf[2]),
                    Digest |-> SubSeq(buf, 3, Len(buf))]
         IN  IF Len(dm.Digest) # dm.Length
             THEN [dm |-> NoDm, err |-> ErrInconsistentLen(dm)]
             ELSE [dm |-> <<dm>>, err |-> NoErr]

\* a variant of Decode that takes 129 bytes for too long
Decode_TooLongAt129(buf) == DecodeWith(buf, MinBufLen, MaxBufLen - 1, 1)

\* a variant of Decode that lets two bytes through
Decode_MinTwo(buf) == DecodeWith(buf, MinBufLen - 1, MaxBufLen, 1)

\* a variant of Decode that reads the code from the length byte
Decode_CodeFromLengthByte(buf) == DecodeWith(buf, MinBufLen, MaxBufLen, 2)

\* func Decode(buf []byte) (*DecodedMultihash, error)
Decode(buf) ==
    IF Len(buf) < MinBufLen THEN [dm |-> NoDm, err |-> ErrTooShort]
    ELSE IF Len(buf) > MaxBufLen THEN [dm |-> NoDm, err |-> ErrTooLong]
    ELSE LET dm == [Code   |-> Uint8(buf[1]),
                    Name   |-> MapGet(Codes, Uint8(buf[1]), ""),
                    Length |-> Uint8(buf[2]),
                    Digest |-> SubSeq(buf, 3, Len(buf))]
         IN  IF Len(dm.Digest) # dm.Length
             THEN [dm |-> NoDm, err |-> ErrInconsistentLen(dm)]
             ELSE [dm |-> <<dm>>, err |-> NoErr]

\* a variant of Cast that does not look at the code
Cast_NoValidCode(buf) ==
    LET r == Decode(buf)
    IN  IF r.err # NoErr THEN [val |-> <<>>, err |-> r.err]
        ELSE [val |-> buf, err |-> NoErr]

\* func Cast(buf []byte) (Multihash, error)
Cast(buf) ==
    LET r == Decode(buf)
    IN  IF r.err # NoErr THEN [val |-> <<>>, err |-> r.err]
        ELSE IF ~ValidCode(r.dm[1].Code) THEN [val |-> <<>>, err |-> ErrUnknownCode]
        ELSE [val |-> buf, err |-> NoErr]

\* a variant of Encode that checks the length before the code
Encode_LengthFirst(buf, code) ==
    IF Len(buf) > MaxEncodeLen THEN [val |-> <<>>, err |-> ErrLenNotSupported]
    ELSE IF ~ValidCode(code) THEN [val |-> <<>>, err |-> ErrUnknownCode]
    ELSE [val |-> <<Uint8(code), Uint8(Len(buf))>> \o buf, err |-> NoErr]

\* a variant of Encode that writes the length byte before the code byte
Encode_LengthByteFirst(buf, code) ==
    IF ~ValidCode(code) THEN [val |-> <<>>, err |-> ErrUnknownCode]
    ELSE IF Len(buf) > MaxEncodeLen THEN [val |-> <<>>, err |-> ErrLenNotSupported]
    ELSE [val |-> <<Uint8(Len(buf)), Uint8(code)>> \o buf, err |-> NoErr]

\* func Encode(buf []byte, code int) ([]byte, error)
Encode(buf, code) ==
    IF ~ValidCode(code) THEN [val |-> <<>>, err |-> ErrUnknownCode]
    ELSE IF Len(buf) > MaxEncodeLen THEN [val |-> <<>>, err |-> ErrLenNotSupported]
    ELSE LET pre == <<Uint8(code), Uint8(Len(buf))>>
         IN  [val |-> pre \o buf, err |-> NoErr]

\* func EncodeName(buf []byte, name string) ([]byte, error)
EncodeName(buf, name) == Encode(buf, MapGet(Names, name, 0))

(***************************************************************************)
(* The inputs the callers pass.                                            *)
(***************************************************************************)
\* a digest of n bytes, all of them different from their neighbours
Digest(n, seed) == [i \in 1..n |-> (37 * i + 101 * seed) % ByteRange]

ExampleDigests == {<<170, 187, 204, 221>>, <<1, 2>>}

DigestInputs ==
    {Digest(n, s) : n \in 0..MaxDigestLen, s \in 0..MaxSeed} \cup ExampleDigests

NameDigestInputs == {Digest(n, 0) : n \in 0..MaxDigestLen} \cup ExampleDigests

\* negative, application, fixed, unregistered and generated codes, and codes
\* whose low byte is a registered code
CodeInputs ==
    (-1..MaxLowCode) \cup ((BLAKE2B_MIN - 1)..(BLAKE2S_MAX + 1))
        \cup {85, 86, 87, 153, 255, 256, 273, 342}

\* every registered name, and names nobody registered
NameInputs ==
    DOMAIN Names \cup {"", "nosuch", "sha2", "blake2b-0", "blake2b-520", "blake2s-264"}

CodeBytes == {0, 5, 15, 16, 17, 18, 19, 20, 21, 85, 86, 87, 96, 97, 153, 255}

\* the length bytes tried in front of a digest of n bytes: right and wrong
LenBytes(n) == {Uint8(n), Uint8(n + 1), 5}

BufInputs ==
    {<<>>} \cup {<<b>> : b \in CodeBytes}
        \cup UNION {{<<b, l>> \o Digest(n, s) :
                        b \in CodeBytes, l \in LenBytes(n), s \in 0..MaxSeed} :
                     n \in 0..MaxDigestLen}
        \cup {<<17, 5, 1, 2>>, <<17, 4, 170, 187, 204, 221>>}

(***************************************************************************)
(* The callers: one call of an exported function, then its return.         *)
(***************************************************************************)
CallEncode ==
    /\ pc = "ready"
    /\ \E buf \in DigestInputs, code \in CodeInputs :
          LET r == Encode(buf, code)
          IN  call' = [NoCall EXCEPT !.op = "Encode", !.argBuf = buf,
                                     !.argCode = code, !.retBytes = r.val,
                                     !.retErr = r.err]
    /\ pc' = "returned"
    /\ UNCHANGED <<c, Names, Codes, DefaultLengths>>

CallEncodeName ==
    /\ pc = "ready"
    /\ \E buf \in NameDigestInputs, name \in NameInputs :
          LET r == EncodeName(buf, name)
          IN  call' = [NoCall EXCEPT !.op = "EncodeName", !.argBuf = buf,
                                     !.argName = name, !.retBytes = r.val,
                                     !.retErr = r.err]
    /\ pc' = "returned"
    /\ UNCHANGED <<c, Names, Codes, DefaultLengths>>

CallDecode ==
    /\ pc = "ready"
    /\ \E buf \in BufInputs :
          LET r == Decode(buf)
          IN  call' = [NoCall EXCEPT !.op = "Decode", !.argBuf = buf,
                                     !.retDm = r.dm, !.retErr = r.err]
    /\ pc' = "returned"
    /\ UNCHANGED <<c, Names, Codes, DefaultLengths>>

CallCast ==
    /\ pc = "ready"
    /\ \E buf \in BufInputs :
          LET r == Cast(buf)
          IN  call' = [NoCall EXCEPT !.op = "Cast", !.argBuf = buf,
                                     !.retBytes = r.val, !.retErr = r.err]
    /\ pc' = "returned"
    /\ UNCHANGED <<c, Names, Codes, DefaultLengths>>

\* the caller is done with the result; the registry is as it was
Return ==
    /\ pc = "returned"
    /\ pc' = "ready"
    /\ call' = NoCall
    /\ UNCHANGED <<c, Names, Codes, DefaultLengths>>

Next ==
    \/ InitBlake2b
    \/ InitBlake2bDone
    \/ InitBlake2s
    \/ InitDone
    \/ CallEncode
    \/ CallEncodeName
    \/ CallDecode
    \/ CallCast
    \/ Return

Spec == Init /\ [][Next]_vars

(***************************************************************************)
(* Properties.  Each is read in the state a call has left behind: op names *)
(* the function called, arg* its arguments, ret* what it returned.         *)
(***************************************************************************)
\* init() has returned
Initialised == pc \in {"ready", "returned"}

\* the code is application-reserved or a key of Codes, written out
Registered(code) == code \in 0..15 \/ code \in DOMAIN Codes

\* the bytes 0..255 that are themselves valid codes once init() has run
ValidLowBytes == (0..15) \cup {17, 18, 19, 20, 86}

\* C1 (as stated): for every digest of 0..127 bytes, the empty digest
\* included, and every valid code, Decode(Encode(digest, code)) succeeds with
\* Digest equal to the digest and Length equal to its length.
C1_RoundTripFromEmpty ==
    (op = "Encode" /\ Registered(argCode) /\ Len(argBuf) \in 0..127) =>
        LET r == Decode(retBytes)
        IN  /\ retErr = NoErr
            /\ r.err = NoErr
            /\ r.dm[1].Digest = argBuf
            /\ r.dm[1].Length = Len(argBuf)

\* C1 (amended): for every digest of 1..127 bytes and every valid code,
\* Decode(Encode(digest, code)) succeeds with Digest equal to the digest and
\* Length equal to its length; for the empty digest Encode succeeds with two
\* bytes, and Decode rejects them with ErrTooShort.
C1_RoundTrip ==
    /\ (op = "Encode" /\ Registered(argCode) /\ Len(argBuf) \in 1..127) =>
          LET r == Decode(retBytes)
          IN  /\ retErr = NoErr
              /\ r.err = NoErr
              /\ r.dm[1].Digest = argBuf
              /\ r.dm[1].Length = Len(argBuf)
    /\ (op = "Encode" /\ Registered(argCode) /\ Len(argBuf) = 0) =>
          /\ retErr = NoErr
          /\ Len(retBytes) = 2
          /\ Decode(retBytes) = [dm |-> NoDm, err |-> ErrTooShort]

\* a digest of the greatest length that can be encoded has made the round trip
C1_Witness ==
    /\ op = "Encode"
    /\ Len(argBuf) = 127
    /\ argCode = 18
    /\ retErr = NoErr
    /\ Decode(retBytes).err = NoErr

\* C2: Cast(buf) succeeds exactly when Decode(buf) succeeds and the decoded
\* code is registered or application-reserved; on success it returns buf, which
\* decodes and has a valid code; when Decode fails Cast returns Decode's error
\* (too short, too long, inconsistent length), never ErrUnknownCode, which
\* is returned only when Decode succeeded.
C2_CastIffDecodeAndValidCode ==
    op = "Cast" =>
        LET d == Decode(argBuf)
        IN  /\ retErr = NoErr <=> (d.err = NoErr /\ Registered(d.dm[1].Code))
            /\ retErr = NoErr =>
                  /\ retBytes = argBuf
                  /\ Decode(retBytes).err = NoErr
                  /\ Registered(Decode(retBytes).dm[1].Code)
            /\ d.err # NoErr =>
                  /\ retErr = d.err
                  /\ retErr.kind \in {"ErrTooShort", "ErrTooLong", "ErrInconsistentLen"}
            /\ retErr = ErrUnknownCode => d.err = NoErr
            /\ retErr # NoErr => retBytes = <<>>

\* Cast has refused a well-formed buffer for its code alone
C2_Witness ==
    /\ op = "Cast"
    /\ retErr = ErrUnknownCode
    /\ Decode(argBuf).err = NoErr
    /\ Len(argBuf) = 129

\* C3 (as stated): Cast of [0x99, 0x00] fails with ErrUnknownCode, and Cast of
\* [0x05, 0x00] succeeds with a value that decodes to the empty digest.
C3_TwoByteCast ==
    /\ (op = "Cast" /\ argBuf = <<153, 0>>) => retErr = ErrUnknownCode
    /\ (op = "Cast" /\ argBuf = <<5, 0>>) =>
          /\ retErr = NoErr
          /\ retBytes = argBuf
          /\ Decode(retBytes).err = NoErr
          /\ Decode(retBytes).dm[1].Length = 0
          /\ Decode(retBytes).dm[1].Digest = <<>>

\* C3 (amended): Cast of [0x99, 0x00] and Cast of [0x05, 0x00] both fail with
\* ErrTooShort, the code unread.  The unknown code is rejected from three
\* bytes on: Cast of [0x99, 0x01, d] fails with ErrUnknownCode, and Cast of
\* [0x05, 0x01, d] succeeds with a value that decodes to the digest [d].
C3_ThreeByteCast ==
    /\ (op = "Cast" /\ argBuf \in {<<153, 0>>, <<5, 0>>}) =>
          /\ retErr = ErrTooShort
          /\ retBytes = <<>>
    /\ (op = "Cast" /\ Len(argBuf) = 3 /\ argBuf[1] = 153 /\ argBuf[2] = 1) =>
          /\ retErr = ErrUnknownCode
          /\ retBytes = <<>>
    /\ (op = "Cast" /\ Len(argBuf) = 3 /\ argBuf[1] = 5 /\ argBuf[2] = 1) =>
          /\ retErr = NoErr
          /\ retBytes = argBuf
          /\ Decode(retBytes).err = NoErr
          /\ Decode(retBytes).dm[1].Length = 1
          /\ Decode(retBytes).dm[1].Digest = <<argBuf[3]>>

\* Cast has been given the two bytes [0x05, 0x00]
C3_Witness ==
    /\ op = "Cast"
    /\ argBuf = <<5, 0>>
    /\ retErr # NoErr

\* C4: Encode fails with ErrUnknownCode exactly when the code is neither in
\* [0,16) nor a key of Codes, whatever the length of the digest; otherwise
\* with ErrLenNotSupported exactly when the digest has more than 127 bytes;
\* otherwise it succeeds.  128 bytes fail, 127 bytes succeed.
C4_EncodeErrors ==
    op = "Encode" =>
        /\ retErr = ErrUnknownCode <=> ~Registered(argCode)
        /\ retErr = ErrLenNotSupported <=> (Registered(argCode) /\ Len(argBuf) > 127)
        /\ retErr = NoErr <=> (Registered(argCode) /\ Len(argBuf) <= 127)
        /\ retErr \in {ErrUnknownCode, ErrLenNotSupported, NoErr}
        /\ retErr # NoErr => retBytes = <<>>
        /\ (Registered(argCode) /\ Len(argBuf) = 128) => retErr = ErrLenNotSupported
        /\ (Registered(argCode) /\ Len(argBuf) = 127) => retErr = NoErr

\* an unknown code has been refused although the digest is too long as well
C4_Witness ==
    /\ op = "Encode"
    /\ argCode = 153
    /\ Len(argBuf) = 128
    /\ retErr = ErrUnknownCode

\* C5: on success Encode returns len(digest)+2 bytes: code mod 256, then
\* len(digest), then the bytes of the digest in order; the total length is in
\* [2,129] and the length byte in [0,127].
\* Encode([0xAA,0xBB,0xCC,0xDD], 0x11) = [0x11,0x04,0xAA,0xBB,0xCC,0xDD].
C5_EncodeLayout ==
    /\ (op = "Encode" /\ retErr = NoErr) =>
          /\ Len(retBytes) = Len(argBuf) + 2
          /\ retBytes[1] = argCode % 256
          /\ retBytes[2] = Len(argBuf)
          /\ \A i \in 1..Len(argBuf) : retBytes[i + 2] = argBuf[i]
          /\ Len(retBytes) \in 2..129
          /\ retBytes[2] \in 0..127
          /\ \A i \in 1..Len(retBytes) : retBytes[i] \in 0..255
    /\ (op = "Encode" /\ argBuf = <<170, 187, 204, 221>> /\ argCode = 17) =>
          /\ retErr = NoErr
          /\ retBytes = <<17, 4, 170, 187, 204, 221>>

\* the example digest has been encoded as sha1
C5_Witness ==
    /\ op = "Encode"
    /\ argBuf = <<170, 187, 204, 221>>
    /\ argCode = 17
    /\ retErr = NoErr

C7_RegistryBijection ==
    Initialised =>
        /\ Cardinality({Names[n] : n \in DOMAIN Names}) = Cardinality(DOMAIN Names)
        /\ Cardinality({Codes[k] : k \in DOMAIN Codes}) = Cardinality(DOMAIN Codes)
        /\ \A n \in DOMAIN Names : Names[n] \in DOMAIN Codes /\ Codes[Names[n]] = n
        /\ \A k \in DOMAIN Codes : Codes[k] \in DOMAIN Names /\ Names[Codes[k]] = k
        /\ DOMAIN DefaultLengths = DOMAIN Codes
        /\ \A k \in 45569..45632 :
              /\ k \in DOMAIN Codes
              /\ Codes[k] = "blake2b-" \o FormatDecimal(8 * (k - 45569 + 1))
              /\ DefaultLengths[k] = k - 45569 + 1
        /\ \A k \in 45633..45664 :
              /\ k \in DOMAIN Codes
              /\ Codes[k] = "blake2s-" \o FormatDecimal(8 * (k - 45633 + 1))
              /\ DefaultLengths[k] = k - 45633 + 1
        /\ Codes[45569] = "blake2b-8" /\ DefaultLengths[45569] = 1
        /\ Codes[45632] = "blake2b-512" /\ DefaultLengths[45632] = 64
        /\ Codes[45633] = "blake2s-8" /\ DefaultLengths[45633] = 1
        /\ Codes[45664] = "blake2s-256" /\ DefaultLengths[45664] = 32
        /\ Codes[17] = "sha1" /\ DefaultLengths[17] = 20
        /\ Codes[18] = "sha2-256" /\ DefaultLengths[18] = 32
        /\ Codes[19] = "sha2-512" /\ DefaultLengths[19] = 64
        /\ Codes[20] = "sha3" /\ DefaultLengths[20] = 64
        /\ Codes[86] = "dbl-sha2-256" /\ DefaultLengths[86] = 32
        /\ DOMAIN Codes = {17, 18, 19, 20, 86} \cup (45569..45664)
        /\ Cardinality(DOMAIN Codes) = 101
        /\ Cardinality(DOMAIN Names) = 101

\* init() has returned with the last generated entry in place
C7_Witness ==
    /\ pc = "ready"
    /\ op = "none"
    /\ 45664 \in DOMAIN Codes
    /\ "blake2s-256" \in DOMAIN Names

\* C8: EncodeName(digest, name) is Encode(digest, Names[name]); for a name
\* that is not in Names the lookup gives code zero and Encode fails with
\* ErrUnknownCode, so no bytes are produced for an unregistered name.
C8_EncodeNameUnknownName ==
    op = "EncodeName" =>
        LET r == Encode(argBuf, IF argName \in DOMAIN Names THEN Names[argName] ELSE 0)
        IN  /\ retBytes = r.val
            /\ retErr = r.err
            /\ argName \notin DOMAIN Names =>
                  /\ retErr = ErrUnknownCode
                  /\ retBytes = <<>>

\* C9: for every valid code c and every digest of 1..127 bytes,
\* Decode(Encode(digest, c)).Code = c mod 256: the code itself below 256,
\* another code for every c in 0xb201..0xb260; 0xb211..0xb214 decode as sha1,
\* sha2-256, sha2-512 and sha3, and 0xb256 as dbl-sha2-256.
C9_CodeTruncation ==
    (op = "Encode" /\ Registered(argCode) /\ Len(argBuf) \in 1..127) =>
        LET r == Decode(retBytes)
        IN  /\ retErr = NoErr
            /\ r.err = NoErr
            /\ r.dm[1].Code = argCode % 256
            /\ argCode < 256 => r.dm[1].Code = argCode
            /\ argCode \in 45569..45664 =>
                  /\ r.dm[1].Code # argCode
                  /\ r.dm[1].Code = argCode - 45568
            /\ argCode = 45585 => r.dm[1].Code = 17 /\ r.dm[1].Name = "sha1"
            /\ argCode = 45586 => r.dm[1].Code = 18 /\ r.dm[1].Name = "sha2-256"
            /\ argCode = 45587 => r.dm[1].Code = 19 /\ r.dm[1].Name = "sha2-512"
            /\ argCode = 45588 => r.dm[1].Code = 20 /\ r.dm[1].Name = "sha3"
            /\ argCode = 45654 => r.dm[1].Code = 86 /\ r.dm[1].Name = "dbl-sha2-256"

\* a digest encoded as blake2s-176 (0xb256) has been read back as dbl-sha2-256
C9_Witness ==
    /\ op = "Encode"
    /\ argCode = 45654
    /\ Len(argBuf) = 22
    /\ retErr = NoErr
    /\ Decode(retBytes).dm[1].Name = "dbl-sha2-256"

\* C10 (as stated): for every valid code, generated ones included, and every
\* digest of 1..127 bytes, Cast(Encode(digest, code)) succeeds and returns the
\* encoded bytes.
C10_CastOfEncodeAnyCode ==
    (op = "Encode" /\ Registered(argCode) /\ Len(argBuf) \in 1..127) =>
        /\ retErr = NoErr
        /\ Cast(retBytes) = [val |-> retBytes, err |-> NoErr]

\* C10 (amended): for every valid code and every digest of 1..127 bytes,
\* Cast(Encode(digest, code)) succeeds and returns the encoded bytes when the
\* low byte of the code is itself a valid code (the application and fixed
\* codes, and 0xb201..0xb20f, 0xb211..0xb214 and 0xb256 of the generated
\* ones), and fails with ErrUnknownCode for every other generated code.
C10_CastOfEncode ==
    (op = "Encode" /\ Registered(argCode) /\ Len(argBuf) \in 1..127) =>
        /\ retErr = NoErr
        /\ argCode % 256 \in ValidLowBytes =>
              Cast(retBytes) = [val |-> retBytes, err |-> NoErr]
        /\ argCode % 256 \notin ValidLowBytes =>
              /\ argCode \in 45569..45664
              /\ Cast(retBytes) = [val |-> <<>>, err |-> ErrUnknownCode]
        /\ argCode < 256 => argCode % 256 \in ValidLowBytes
        /\ argCode \in (45569..45583) \cup (45585..45588) \cup {45654} =>
              argCode % 256 \in ValidLowBytes

\* a digest encoded under a generated code has passed Cast
C10_Witness ==
    /\ op = "Encode"
    /\ argCode = 45583
    /\ Len(argBuf) = 15
    /\ retErr = NoErr
    /\ Cast(retBytes).err = NoErr

====
